---- MODULE Spec2Model ----
(***************************************************************************)
(* Model of the drawer tool of the gridfinity repository                   *)
(* (tools/drawer.py) and of the argument validation of the part            *)
(* constructors (gridfinity/baseplate.py, gridfinity/bin.py).              *)
(*                                                                         *)
(* Lengths are integers counting tenths of a millimetre, so 42.0 mm is 420 *)
(* and the 0.5 mm significance threshold is 5.  Python's float arithmetic  *)
(* is modelled by exact arithmetic on this grid; a quotient that is not an *)
(* integer (length / num_pieces) is kept as a fraction [n, d].             *)
(*                                                                         *)
(* main() names PRINTER_BED_WIDTH and PRINTER_BED_DEPTH in the defaults of *)
(* its argument parser (drawer.py:355, 361) before its `global` statement  *)
(* (drawer.py:368), which Python 3 rejects when it compiles the file.  The *)
(* model gives the functions the meaning they have with the `global`       *)
(* statement at the head of main, which is what the statement asks for.    *)
(***************************************************************************)
EXTENDS Integers, Sequences, FiniteSets, TLC

VARIABLES
    PRINTER_BED_WIDTH,   \* module global, drawer.py:19
    PRINTER_BED_DEPTH,   \* module global, drawer.py:20
    lastPlan,            \* the latest observed call of calculate_baseplates
    firstPlan,           \* the first observed call of calculate_baseplates
    lastFill,            \* the latest observed call of calculate_spacer_dimensions
    firstFill,           \* the first observed call of calculate_spacer_dimensions
    lastPart,            \* the latest call of baseplate() or bin()
    pc,                  \* position of the generate_drawer_files run
    run,                 \* arguments of the run
    drawer_folder,       \* the output folder the run created
    layout,              \* what calculate_baseplates returned to the run
    piece,               \* 1-based index of the next piece of the stage
    spacer_dims,         \* the stage's list from calculate_spacer_dimensions
    fills,               \* axes for which the run called calculate_spacer_dimensions
    built,               \* pieces whose geometry the kernel was asked for, in order
    exported,            \* pieces written to a file, in order
    error                \* the exception that ended the run

vars == <<PRINTER_BED_WIDTH, PRINTER_BED_DEPTH, lastPlan, firstPlan, lastFill,
          firstFill, lastPart, pc, run, drawer_folder, layout, piece,
          spacer_dims, fills, built, exported, error>>

planVars == <<lastPlan, firstPlan>>
fillVars == <<lastFill, firstFill>>
bedVars  == <<PRINTER_BED_WIDTH, PRINTER_BED_DEPTH>>
runVars  == <<pc, run, drawer_folder, layout, piece, spacer_dims, fills, built,
              exported, error>>

None == [status |-> "none"]

-----------------------------------------------------------------------------
(* Program constants (tenths of a millimetre unless stated)                 *)

unit_size == 420
DEFAULT_BED_WIDTH == 2560
DEFAULT_BED_DEPTH == 2560
DEFAULT_THICKNESS == 50
DEFAULT_MAX_LENGTH == 1500
DEFAULT_MAX_ASPECT_RATIO == 5
GAP_THRESHOLD == 5

GridfinityConfig == [unit_size |-> unit_size]

-----------------------------------------------------------------------------
(* Bounds of the explored inputs                                            *)

MaxUnits == 12       \* drawers of 0..MaxUnits whole units per axis
MaxBedUnits == 3     \* small beds of 0..MaxBedUnits units, next to the default
MaxFillUnits == 6    \* filled lengths of 0..MaxFillUnits whole units
MaxPartUnits == 3    \* constructor arguments of -1..MaxPartUnits units

-----------------------------------------------------------------------------
(* Python arithmetic                                                        *)

\* a // b on numbers: floor of the quotient, b # 0
FloorDiv(a, b) == IF b > 0 THEN a \div b ELSE (-a) \div (-b)

\* math.ceil(a / b), b # 0
CeilDiv(a, b) == -FloorDiv(-a, b)

\* a % b, b # 0: the result has the sign of b
PyMod(a, b) == a - b * FloorDiv(a, b)

Min(a, b) == IF a <= b THEN a ELSE b

\* len(range(n))
RangeLen(n) == IF n > 0 THEN n ELSE 0

-----------------------------------------------------------------------------
(* Layout planner: calculate_baseplates and _optimize_baseplate_layout      *)

Raised(e) == [status |-> e]
Diverges  == [status |-> "diverges"]

\* mutant: rounds the unit count up instead of down
units_of_ceil(dimension, cfg) == CeilDiv(dimension, cfg.unit_size)

\* int(dimension // cfg.unit_size)
units_of(dimension, cfg) == FloorDiv(dimension, cfg.unit_size)

\* dimension - (units * cfg.unit_size)
gap_of(dimension, units, cfg) == dimension - (units * cfg.unit_size)

\* mutant: a drawer exactly as large as the bed is split
fits_on_bed_strict(units_x, units_y, max_units_x, max_units_y) ==
    units_x < max_units_x /\ units_y < max_units_y

\* Strategy 1 test
fits_on_bed(units_x, units_y, max_units_x, max_units_y) ==
    units_x <= max_units_x /\ units_y <= max_units_y

\* mutant: a full plate is cut one unit short of the bed
plate_size_short(remaining, max_units) ==
    IF remaining > max_units /\ max_units > 1
    THEN max_units - 1
    ELSE Min(remaining, max_units)

\* min(remaining, max_units): the size of the next plate of a one-axis split
plate_size(remaining, max_units) == Min(remaining, max_units)

\* The while loop of strategy 2 / 3 on one axis, returning the list of sizes.
\* When the next plate is no larger than 0 while remaining > 0, max_units <= 0
\* and remaining never shrinks: the loop appends for ever.
RECURSIVE split_axis(_, _, _)
split_axis(remaining, max_units, sizes) ==
    IF remaining > 0
    THEN LET plate == plate_size(remaining, max_units)
         IN  IF plate <= 0
             THEN Diverges
             ELSE split_axis(remaining - plate, max_units, Append(sizes, plate))
    ELSE [status |-> "ok", sizes |-> sizes]

\* mutant: one plate more than needed when the units divide evenly
num_plates_floor(units, max_units) == FloorDiv(units, max_units) + 1

\* math.ceil(units / max_units)
num_plates(units, max_units) == CeilDiv(units, max_units)

\* mutant: one column too many receives a unit of the remainder
grid_size_off_by_one(index, base_size, remainder) ==
    base_size + (IF index <= remainder THEN 1 ELSE 0)

\* base_size + (1 if index < remainder else 0)
grid_size(index, base_size, remainder) ==
    base_size + (IF index < remainder THEN 1 ELSE 0)

\* Strategy 4: the nested for loops, row by row
grid_plates(units_x, units_y, num_plates_x, num_plates_y) ==
    LET base_size_x == FloorDiv(units_x, num_plates_x)
        remainder_x == PyMod(units_x, num_plates_x)
        base_size_y == FloorDiv(units_y, num_plates_y)
        remainder_y == PyMod(units_y, num_plates_y)
        cols == RangeLen(num_plates_x)
        rows == RangeLen(num_plates_y)
    IN  [k \in 1..(rows * cols) |->
            LET row == (k - 1) \div cols
                col == (k - 1) % cols
            IN  <<grid_size(col, base_size_x, remainder_x),
                  grid_size(row, base_size_y, remainder_y)>>]

_optimize_baseplate_layout(units_x, units_y, max_units_x, max_units_y) ==
    IF fits_on_bed(units_x, units_y, max_units_x, max_units_y)
    THEN [status |-> "ok", tier |-> 1, baseplates |-> <<<<units_x, units_y>>>>]
    ELSE IF units_y <= max_units_y
    THEN LET s == split_axis(units_x, max_units_x, <<>>)
         IN  IF s.status # "ok" THEN s
             ELSE [status |-> "ok", tier |-> 2,
                   baseplates |-> [k \in 1..Len(s.sizes) |-> <<s.sizes[k], units_y>>]]
    ELSE IF units_x <= max_units_x
    THEN LET s == split_axis(units_y, max_units_y, <<>>)
         IN  IF s.status # "ok" THEN s
             ELSE [status |-> "ok", tier |-> 3,
                   baseplates |-> [k \in 1..Len(s.sizes) |-> <<units_x, s.sizes[k]>>]]
    ELSE IF max_units_x = 0 \/ max_units_y = 0
    THEN Raised("ZeroDivisionError")
    ELSE LET num_plates_x == num_plates(units_x, max_units_x)
             num_plates_y == num_plates(units_y, max_units_y)
         IN  IF num_plates_x = 0 \/ num_plates_y = 0
             THEN Raised("ZeroDivisionError")
             ELSE [status |-> "ok", tier |-> 4,
                   baseplates |-> grid_plates(units_x, units_y,
                                              num_plates_x, num_plates_y)]

\* calculate_baseplates reads the two module globals
calculate_baseplates(drawer_width, drawer_depth, cfg) ==
    IF cfg.unit_size = 0
    THEN Raised("ZeroDivisionError")
    ELSE LET units_x == units_of(drawer_width, cfg)
             units_y == units_of(drawer_depth, cfg)
             gap_x == gap_of(drawer_width, units_x, cfg)
             gap_y == gap_of(drawer_depth, units_y, cfg)
             max_units_x == units_of(PRINTER_BED_WIDTH, cfg)
             max_units_y == units_of(PRINTER_BED_DEPTH, cfg)
             r == _optimize_baseplate_layout(units_x, units_y,
                                             max_units_x, max_units_y)
         IN  IF r.status # "ok" THEN r
             ELSE [status |-> "ok",
                   tier |-> r.tier,
                   baseplates |-> r.baseplates,
                   gaps |-> [x |-> gap_x, y |-> gap_y],
                   drawer_units |-> [x |-> units_x, y |-> units_y]]

\* A caller (a test, another tool) calls calculate_baseplates
CallPlan(drawer_width, drawer_depth, cfg) ==
    LET call == [args |-> <<drawer_width, drawer_depth, cfg>>,
                 bed |-> <<PRINTER_BED_WIDTH, PRINTER_BED_DEPTH>>,
                 result |-> calculate_baseplates(drawer_width, drawer_depth, cfg)]
    IN  /\ pc \in {"idle", "done", "error"}   \* no run is in progress
        /\ lastPlan' = call
        /\ firstPlan' = IF firstPlan = None THEN call ELSE firstPlan
        /\ UNCHANGED <<bedVars, fillVars, lastPart, runVars>>

-----------------------------------------------------------------------------
(* Gap filler: calculate_spacer_dimensions                                  *)

Max(a, b) == IF a >= b THEN a ELSE b

\* length / num_pieces as an exact fraction
Frac(n, d) == [n |-> n, d |-> d]

\* mutant: the aspect-ratio constraint is dropped
num_pieces_by_length_only(gap, length, max_length, max_aspect_ratio) ==
    CeilDiv(length, max_length)

\* max(num_pieces_length, num_pieces_ratio)
num_pieces_of(gap, length, max_length, max_aspect_ratio) ==
    LET num_pieces_length == CeilDiv(length, max_length)
        max_length_by_ratio == gap * max_aspect_ratio
        num_pieces_ratio == CeilDiv(length, max_length_by_ratio)
    IN  Max(num_pieces_length, num_pieces_ratio)

\* mutant: whole-number division, the remainder of the length is lost
base_length_floor(length, num_pieces) == Frac(FloorDiv(length, num_pieces), 1)

\* the depth of each piece of a split: base_length = length / num_pieces
base_length_of(length, num_pieces) == Frac(length, num_pieces)

calculate_spacer_dimensions(gap, length, max_length, max_aspect_ratio) ==
    IF max_length = 0 \/ gap * max_aspect_ratio = 0
    THEN Raised("ZeroDivisionError")
    ELSE LET num_pieces == num_pieces_of(gap, length, max_length, max_aspect_ratio)
         IN  IF num_pieces = 1
             THEN [status |-> "ok",
                   spacers |-> <<[width |-> gap, depth |-> Frac(length, 1)]>>]
             ELSE IF num_pieces = 0
             THEN Raised("ZeroDivisionError")
             ELSE [status |-> "ok",
                   spacers |-> [i \in 1..RangeLen(num_pieces) |->
                                  [width |-> gap,
                                   depth |-> base_length_of(length, num_pieces)]]]

\* A caller calls calculate_spacer_dimensions
CallFill(gap, length, max_length, max_aspect_ratio) ==
    LET call == [args |-> <<gap, length, max_length, max_aspect_ratio>>,
                 result |-> calculate_spacer_dimensions(gap, length, max_length,
                                                        max_aspect_ratio)]
    IN  /\ pc \in {"idle", "done", "error"}   \* no run is in progress
        /\ lastFill' = call
        /\ firstFill' = IF firstFill = None THEN call ELSE firstFill
        /\ UNCHANGED <<bedVars, planVars, lastPart, runVars>>

-----------------------------------------------------------------------------
(* Part constructors: the validation at the top of baseplate() and bin()    *)

\* mutant: a zero-unit baseplate passes the validation
baseplate_accepts_zero(x, y, thickness) ==
    IF x < 0 \/ y < 0 THEN Raised("ValueError")
    ELSE IF thickness <= 0 THEN Raised("ValueError")
    ELSE [status |-> "ok"]

\* baseplate.py:33-36; "ok" stands for going on to build the geometry
baseplate(x, y, thickness) ==
    IF x < 1 \/ y < 1 THEN Raised("ValueError")
    ELSE IF thickness <= 0 THEN Raised("ValueError")
    ELSE [status |-> "ok"]

\* bin.py:32-33
bin(x, y, z) ==
    IF x < 1 \/ y < 1 \/ z < 1 THEN Raised("ValueError")
    ELSE [status |-> "ok"]

CallBaseplate(x, y, thickness) ==
    /\ pc \in {"idle", "done", "error"}   \* no run is in progress
    /\ lastPart' = [fn |-> "baseplate", args |-> <<x, y, thickness>>,
                    result |-> baseplate(x, y, thickness)]
    /\ UNCHANGED <<bedVars, planVars, fillVars, runVars>>

CallBin(x, y, z) ==
    /\ pc \in {"idle", "done", "error"}   \* no run is in progress
    /\ lastPart' = [fn |-> "bin", args |-> <<x, y, z>>, result |-> bin(x, y, z)]
    /\ UNCHANGED <<bedVars, planVars, fillVars, runVars>>

-----------------------------------------------------------------------------
(* Orchestration: generate_drawer_files and main                            *)
(* The run is a sequence of steps, one per piece, because each piece goes   *)
(* through the geometry kernel and the exporter, either of which may raise. *)

\* int(v) of a length in mm: truncation towards zero
IntMm(v) == IF v >= 0 THEN v \div 10 ELSE -((-v) \div 10)

\* mutant: any positive gap gets a spacer
gap_positive(gap) == gap > 0

\* gaps[axis] > 0.5
gap_significant(gap) == gap > GAP_THRESHOLD

\* no call is in progress: a new top-level call can be made
Returned == pc \in {"idle", "done", "error"}

\* drawer.py:257-265: the folder is created, then the layout is calculated
BeginRun(drawer_width, drawer_depth, thickness, plan) ==
    /\ run' = [drawer_width |-> drawer_width, drawer_depth |-> drawer_depth,
               thickness |-> thickness]
    /\ drawer_folder' = <<IntMm(drawer_width), IntMm(drawer_depth)>>
    /\ layout' = IF plan.status = "ok" THEN plan ELSE None
    /\ pc' = CASE plan.status = "ok" -> "plates"
               [] plan.status = "diverges" -> "diverged"
               [] OTHER -> "error"
    /\ error' = IF plan.status \in {"ok", "diverges"} THEN None ELSE plan
    /\ piece' = 1
    /\ spacer_dims' = <<>>
    /\ fills' = {}
    /\ built' = <<>>
    /\ exported' = <<>>

generate_drawer_files(drawer_width, drawer_depth, thickness) ==
    /\ Returned
    /\ BeginRun(drawer_width, drawer_depth, thickness,
                calculate_baseplates(drawer_width, drawer_depth, GridfinityConfig))
    /\ UNCHANGED <<bedVars, planVars, fillVars, lastPart>>

\* main: the two globals are overwritten from the command line, then the run
\* starts and reads them
main(width, depth, thickness, bed_width, bed_depth) ==
    /\ Returned
    /\ PRINTER_BED_WIDTH' = bed_width
    /\ PRINTER_BED_DEPTH' = bed_depth
    /\ BeginRun(width, depth, thickness,
                calculate_baseplates(width, depth, GridfinityConfig)')
    /\ UNCHANGED <<planVars, fillVars, lastPart>>

\* mutant: the failure is logged, the piece skipped and the run goes on
Abort_and_continue(e) ==
    /\ pc' = pc
    /\ error' = e
    /\ piece' = piece + 1
    /\ UNCHANGED <<bedVars, planVars, fillVars, lastPart, run, drawer_folder,
                   layout, spacer_dims, fills, exported>>

\* the run ends with an exception
Abort(e) ==
    /\ pc' = "error"
    /\ error' = e
    /\ UNCHANGED <<bedVars, planVars, fillVars, lastPart, run, drawer_folder,
                   layout, piece, spacer_dims, fills, exported>>

\* one piece is built and written; the next one is due
Emit(b, file) ==
    /\ built' = Append(built, b)
    /\ exported' = Append(exported, file)
    /\ piece' = piece + 1
    /\ UNCHANGED <<bedVars, planVars, fillVars, lastPart, pc, run, drawer_folder,
                   layout, spacer_dims, fills, error>>

\* drawer.py:269-274, one iteration: baseplate() validates, the kernel builds
\* the plate and the exporter writes it
BuildPlate ==
    /\ pc = "plates"
    /\ piece <= Len(layout.baseplates)
    /\ LET x_units == layout.baseplates[piece][1]
           y_units == layout.baseplates[piece][2]
           checked == baseplate(x_units, y_units, run.thickness)
           b == [kind |-> "baseplate", a |-> x_units, b |-> y_units]
       IN  IF checked.status # "ok"
           THEN Abort(checked) /\ UNCHANGED built
           ELSE \/ Emit(b, [kind |-> "baseplate", i |-> piece,
                            a |-> x_units, b |-> y_units])
                \/ Abort(Raised("CollaboratorError")) /\ built' = Append(built, b)

\* a spacer stage begins: drawer.py:286-291 for x, 301-306 for y
StartSpacers(stage, axis, gap, length) ==
    IF gap_significant(gap)
    THEN LET r == calculate_spacer_dimensions(gap, length, DEFAULT_MAX_LENGTH,
                                              DEFAULT_MAX_ASPECT_RATIO)
         IN  /\ fills' = fills \cup {[axis |-> axis, gap |-> gap, length |-> length]}
             /\ pc' = IF r.status = "ok" THEN stage ELSE "error"
             /\ error' = IF r.status = "ok" THEN None ELSE r
             /\ spacer_dims' = IF r.status = "ok" THEN r.spacers ELSE spacer_dims
             /\ piece' = IF r.status = "ok" THEN 1 ELSE piece
             /\ UNCHANGED <<bedVars, planVars, fillVars, lastPart, run,
                            drawer_folder, layout, built, exported>>
    ELSE /\ pc' = stage
         /\ spacer_dims' = <<>>
         /\ piece' = 1
         /\ UNCHANGED <<bedVars, planVars, fillVars, lastPart, run, drawer_folder,
                        layout, fills, built, exported, error>>

StartSpacersX ==
    /\ pc = "plates"
    /\ piece > Len(layout.baseplates)
    /\ StartSpacers("spacers_x", "x", layout.gaps.x,
                    layout.drawer_units.y * GridfinityConfig.unit_size)

\* drawer.py:293-298, one iteration: generate_spacer(width, depth, thickness)
BuildSpacerX ==
    /\ pc = "spacers_x"
    /\ piece <= Len(spacer_dims)
    /\ LET width == spacer_dims[piece].width
           depth == spacer_dims[piece].depth
           b == [kind |-> "spacer", a |-> Frac(width, 1), b |-> depth]
       IN  \/ Emit(b, [kind |-> "spacer_x", i |-> piece,
                       a |-> Frac(width, 1), b |-> depth])
           \/ Abort(Raised("CollaboratorError")) /\ built' = Append(built, b)

StartSpacersY ==
    /\ pc = "spacers_x"
    /\ piece > Len(spacer_dims)
    /\ StartSpacers("spacers_y", "y", layout.gaps.y, run.drawer_width)

\* drawer.py:308-314, one iteration: generate_spacer(depth, width, thickness)
BuildSpacerY ==
    /\ pc = "spacers_y"
    /\ piece <= Len(spacer_dims)
    /\ LET width == spacer_dims[piece].width
           depth == spacer_dims[piece].depth
           b == [kind |-> "spacer", a |-> depth, b |-> Frac(width, 1)]
       IN  \/ Emit(b, [kind |-> "spacer_y", i |-> piece,
                       a |-> depth, b |-> Frac(width, 1)])
           \/ Abort(Raised("CollaboratorError")) /\ built' = Append(built, b)

\* drawer.py:316-322: the summary is logged and the call returns
Finish ==
    /\ pc = "spacers_y"
    /\ piece > Len(spacer_dims)
    /\ pc' = "done"
    /\ UNCHANGED <<bedVars, planVars, fillVars, lastPart, run, drawer_folder,
                   layout, piece, spacer_dims, fills, built, exported, error>>

RunStep ==
    \/ BuildPlate
    \/ StartSpacersX
    \/ BuildSpacerX
    \/ StartSpacersY
    \/ BuildSpacerY
    \/ Finish

-----------------------------------------------------------------------------
(* Initial state: the module has just been imported                         *)

Idle ==
    /\ lastPlan = None /\ firstPlan = None
    /\ lastFill = None /\ firstFill = None
    /\ lastPart = None
    /\ pc = "idle" /\ run = None /\ drawer_folder = None /\ layout = None
    /\ piece = 0 /\ spacer_dims = <<>> /\ fills = {}
    /\ built = <<>> /\ exported = <<>> /\ error = None

Init ==
    /\ PRINTER_BED_WIDTH = DEFAULT_BED_WIDTH
    /\ PRINTER_BED_DEPTH = DEFAULT_BED_DEPTH
    /\ Idle

-----------------------------------------------------------------------------
(* SpecPlan: the planner as a function of drawer, bed and unit size         *)

GapSamples == {0, 160}
ScenarioSizes == {1000, 2000, 3000, 5000}
PlanSizes == {-1000, 0, 300}
             \cup ScenarioSizes
             \cup {u * unit_size + g : u \in 1..MaxUnits, g \in GapSamples}
BedSizes == {-1000, -300, 0, 300, DEFAULT_BED_WIDTH}
            \cup {u * unit_size : u \in 1..MaxBedUnits}
UnitSizes == {unit_size, 1000}

InitPlan ==
    /\ PRINTER_BED_WIDTH \in BedSizes
    /\ PRINTER_BED_DEPTH \in BedSizes
    /\ Idle

NextPlan ==
    \E w \in PlanSizes, d \in PlanSizes, u \in UnitSizes :
        lastPlan = None /\ CallPlan(w, d, [unit_size |-> u])

SpecPlan == InitPlan /\ [][NextPlan]_vars

-----------------------------------------------------------------------------
(* Properties of the planner, checked under SpecPlan                        *)

RECURSIVE SumTo(_, _)
SumTo(s, k) == IF k = 0 THEN 0 ELSE s[k] + SumTo(s, k - 1)
SumSeq(s) == SumTo(s, Len(s))

PlanCalled == lastPlan # None
PlanReturned == PlanCalled /\ lastPlan.result.status = "ok"

ArgWidth == lastPlan.args[1]
ArgDepth == lastPlan.args[2]
ArgUnit  == lastPlan.args[3].unit_size
BedWidth == lastPlan.bed[1]
BedDepth == lastPlan.bed[2]

\* the quantities the specification names, computed from the call's inputs
SpecUnitsX == FloorDiv(ArgWidth, ArgUnit)
SpecUnitsY == FloorDiv(ArgDepth, ArgUnit)
SpecMaxUnitsX == FloorDiv(BedWidth, ArgUnit)
SpecMaxUnitsY == FloorDiv(BedDepth, ArgUnit)

\* all five inputs of Plan strictly positive
ValidPlanInputs ==
    /\ ArgWidth > 0 /\ ArgDepth > 0
    /\ BedWidth > 0 /\ BedDepth > 0
    /\ ArgUnit > 0

\* C1: whenever the drawer's whole units fit the bed's whole units on both
\* axes, calculate_baseplates returns exactly one plate,
\* (floor(drawerWidth/unitSize), floor(drawerDepth/unitSize)).
C1_WholeDrawerIsOnePlate ==
    (PlanCalled /\ SpecUnitsX <= SpecMaxUnitsX /\ SpecUnitsY <= SpecMaxUnitsY)
        => /\ lastPlan.result.status = "ok"
           /\ lastPlan.result.baseplates = <<<<SpecUnitsX, SpecUnitsY>>>>

\* Plan(200, 100, 256, 256, 42) has returned the single plate (4, 2)
C1_Witness ==
    /\ PlanCalled
    /\ lastPlan.args = <<2000, 1000, GridfinityConfig>>
    /\ lastPlan.bed = <<DEFAULT_BED_WIDTH, DEFAULT_BED_DEPTH>>
    /\ lastPlan.result.status = "ok"
    /\ lastPlan.result.baseplates = <<<<4, 2>>>>

\* the grid the algorithm lays the plates out in: rows and columns by tier
PlanCols ==
    CASE lastPlan.result.tier = 1 -> 1
      [] lastPlan.result.tier = 2 -> Len(lastPlan.result.baseplates)
      [] lastPlan.result.tier = 3 -> 1
      [] lastPlan.result.tier = 4 -> CeilDiv(SpecUnitsX, SpecMaxUnitsX)
PlanRows ==
    CASE lastPlan.result.tier = 1 -> 1
      [] lastPlan.result.tier = 2 -> 1
      [] lastPlan.result.tier = 3 -> Len(lastPlan.result.baseplates)
      [] lastPlan.result.tier = 4 -> CeilDiv(SpecUnitsY, SpecMaxUnitsY)
PlateAt(r, c) == lastPlan.result.baseplates[(r - 1) * PlanCols + c]

\* C2: every plan returned on strictly positive inputs tiles the drawer's
\* unit grid: the plates fill a rows x columns arrangement in which a row
\* shares one Y size and a column one X size, the X sizes across each row
\* sum to unitsX, the Y sizes down each column sum to unitsY, and the plate
\* areas sum to unitsX * unitsY.
C2_PlatesTileTheUnitGrid ==
    (PlanReturned /\ ValidPlanInputs)
        => LET plates == lastPlan.result.baseplates
           IN  /\ Len(plates) = PlanRows * PlanCols
               /\ \A r \in 1..PlanRows :
                    /\ SumSeq([c \in 1..PlanCols |-> PlateAt(r, c)[1]]) = SpecUnitsX
                    /\ \A c \in 1..PlanCols : PlateAt(r, c)[2] = PlateAt(r, 1)[2]
               /\ \A c \in 1..PlanCols :
                    /\ SumSeq([r \in 1..PlanRows |-> PlateAt(r, c)[2]]) = SpecUnitsY
                    /\ \A r \in 1..PlanRows : PlateAt(r, c)[1] = PlateAt(1, c)[1]
               /\ SumSeq([k \in 1..Len(plates) |-> plates[k][1] * plates[k][2]])
                    = SpecUnitsX * SpecUnitsY

\* a 2-D split with a remainder on both axes: Plan(500, 300, 256, 256, 42)
C2_Witness ==
    /\ PlanReturned /\ ValidPlanInputs
    /\ lastPlan.args = <<5000, 3000, GridfinityConfig>>
    /\ lastPlan.bed = <<DEFAULT_BED_WIDTH, DEFAULT_BED_DEPTH>>
    /\ lastPlan.result.tier = 4
    /\ Len(lastPlan.result.baseplates) = 4

\* C3: on strictly positive inputs every plate (x, y) of a plan from tier
\* 2, 3 or 4 has 1 <= x <= maxUnitsX and 1 <= y <= maxUnitsY.
C3_PlatesBedBounded ==
    (PlanReturned /\ ValidPlanInputs /\ lastPlan.result.tier \in 2..4)
        => \A k \in 1..Len(lastPlan.result.baseplates) :
              LET p == lastPlan.result.baseplates[k]
              IN  /\ 1 <= p[1] /\ p[1] <= SpecMaxUnitsX
                  /\ 1 <= p[2] /\ p[2] <= SpecMaxUnitsY

\* C4: on valid inputs the returned gap of an axis is the drawer dimension
\* minus its whole units times the unit size, lies in [0, unitSize), and is
\* a function of the drawer and the unit size alone (no bed size enters it).
C4_GapIsResidue ==
    (PlanReturned /\ ValidPlanInputs)
        => LET r == lastPlan.result
           IN  /\ r.drawer_units = [x |-> SpecUnitsX, y |-> SpecUnitsY]
               /\ r.gaps.x = ArgWidth - r.drawer_units.x * ArgUnit
               /\ r.gaps.y = ArgDepth - r.drawer_units.y * ArgUnit
               /\ 0 <= r.gaps.x /\ r.gaps.x < ArgUnit
               /\ 0 <= r.gaps.y /\ r.gaps.y < ArgUnit

\* a split plan on a small bed with a gap on both axes
C4_Witness ==
    /\ PlanReturned /\ ValidPlanInputs
    /\ lastPlan.result.tier = 4
    /\ lastPlan.bed # <<DEFAULT_BED_WIDTH, DEFAULT_BED_DEPTH>>
    /\ lastPlan.result.gaps.x > 0
    /\ lastPlan.result.gaps.y > 0

\* C8: on strictly positive inputs the planner terminates and returns a
\* list of plates without raising.
C8_PlanIsTotal ==
    (PlanCalled /\ ValidPlanInputs) => lastPlan.result.status = "ok"

-----------------------------------------------------------------------------
(* SpecFill: the gap filler as a function of its four arguments             *)

FillGaps == {-160, 0, 40, 160, 320, 400, 2000}
FillLengths == {-420, 50, 1000, 2600} \cup {u * unit_size : u \in 0..MaxFillUnits}
FillMaxLengths == {0, 1000, DEFAULT_MAX_LENGTH}
FillRatios == {0, 1, DEFAULT_MAX_ASPECT_RATIO}

NextFill ==
    \E g \in FillGaps, l \in FillLengths, m \in FillMaxLengths, a \in FillRatios :
        lastFill = None /\ CallFill(g, l, m, a)

SpecFill == Init /\ [][NextFill]_vars

-----------------------------------------------------------------------------
(* Properties of the gap filler, checked under SpecFill                     *)

RECURSIVE SetProduct(_)
SetProduct(S) == IF S = {} THEN 1
                 ELSE LET x == CHOOSE y \in S : TRUE
                      IN  x * SetProduct(S \ {x})

\* the sum of a sequence of fractions equals the integer total: compared
\* over a common multiple of the denominators
FracSumIs(s, total) ==
    LET m == SetProduct({s[i].d : i \in 1..Len(s)})
    IN  SumSeq([i \in 1..Len(s) |-> s[i].n * (m \div s[i].d)]) = total * m

FracEq(f, g) == f.n * g.d = g.n * f.d
\* f <= k * g for fractions with positive denominators and an integer k
FracLeqTimes(f, k, g) == f.n * g.d <= k * g.n * f.d

FillCalled == lastFill # None
FillReturned == FillCalled /\ lastFill.result.status = "ok"
FillGap == lastFill.args[1]
FillLength == lastFill.args[2]
FillMaxLength == lastFill.args[3]
FillRatio == lastFill.args[4]
ValidFillInputs ==
    FillGap > 0 /\ FillLength > 0 /\ FillMaxLength > 0 /\ FillRatio > 0

PieceDepths ==
    [i \in 1..Len(lastFill.result.spacers) |-> lastFill.result.spacers[i].depth]

\* C5 as stated: on valid inputs every piece has depth <= maxLength and
\* max(width, depth) / min(width, depth) <= maxAspectRatio, and the depths
\* sum to length.
C5_PiecesBoundedBothWays ==
    (FillCalled /\ ValidFillInputs)
        => /\ lastFill.result.status = "ok"
           /\ \A i \in 1..Len(lastFill.result.spacers) :
                LET p == lastFill.result.spacers[i]
                    w == Frac(p.width, 1)
                IN  /\ FracLeqTimes(p.depth, FillMaxLength, Frac(1, 1))
                    /\ FracLeqTimes(p.depth, FillRatio, w)
                    /\ FracLeqTimes(w, FillRatio, p.depth)
           /\ FracSumIs(PieceDepths, FillLength)

\* C5 amended: on valid inputs every piece has depth <= maxLength and
\* length-to-gap ratio depth / width <= maxAspectRatio, and the depths sum
\* to length.
C5_PiecesBounded ==
    (FillCalled /\ ValidFillInputs)
        => /\ lastFill.result.status = "ok"
           /\ \A i \in 1..Len(lastFill.result.spacers) :
                LET p == lastFill.result.spacers[i]
                IN  /\ FracLeqTimes(p.depth, FillMaxLength, Frac(1, 1))
                    /\ FracLeqTimes(p.depth, FillRatio, Frac(p.width, 1))
           /\ FracSumIs(PieceDepths, FillLength)

\* Fill(32, 260, 150, 5) has returned two pieces of 32 x 130
C5_Witness ==
    /\ FillReturned
    /\ lastFill.args = <<320, 2600, DEFAULT_MAX_LENGTH, DEFAULT_MAX_ASPECT_RATIO>>
    /\ Len(lastFill.result.spacers) = 2
    /\ \A i \in 1..2 : FracEq(lastFill.result.spacers[i].depth, Frac(1300, 1))

-----------------------------------------------------------------------------
(* SpecParts: the constructors' validation as a function of the arguments   *)

PartUnits == -1..MaxPartUnits
Thicknesses == {-DEFAULT_THICKNESS, 0, 1, DEFAULT_THICKNESS, 2 * DEFAULT_THICKNESS}

NextParts ==
    \/ \E x \in PartUnits, y \in PartUnits, t \in Thicknesses :
          lastPart = None /\ CallBaseplate(x, y, t)
    \/ \E x \in PartUnits, y \in PartUnits, z \in PartUnits :
          lastPart = None /\ CallBin(x, y, z)

SpecParts == Init /\ [][NextParts]_vars

\* C10: baseplate(x, y, thickness) raises ValueError exactly when x < 1 or
\* y < 1 or thickness <= 0, and bin(x, y, z) raises ValueError exactly when
\* x < 1 or y < 1 or z < 1; otherwise the validation lets the call through.
C10_ConstructorsValidate ==
    lastPart # None
        => LET a == lastPart.args
               invalid == IF lastPart.fn = "baseplate"
                          THEN a[1] < 1 \/ a[2] < 1 \/ a[3] <= 0
                          ELSE a[1] < 1 \/ a[2] < 1 \/ a[3] < 1
           IN  /\ invalid => lastPart.result.status = "ValueError"
               /\ ~invalid => lastPart.result.status = "ok"

\* baseplate(0, 1) of test_baseplate_invalid_dimensions has raised
C10_Witness ==
    /\ lastPart # None
    /\ lastPart.fn = "baseplate"
    /\ lastPart.args = <<0, 1, DEFAULT_THICKNESS>>
    /\ lastPart.result.status = "ValueError"

-----------------------------------------------------------------------------
(* Spec: the drawer tool, run from the command line or called directly      *)

RunWidths == {-1000, 300, 420, 423, 425, 426, 2000, 5000}
RunDepths == {-1000, 300, 420, 423, 426, 1000, 3000}
RunThicknesses == {0, DEFAULT_THICKNESS}
RunBeds == {-1000, 300, 840, DEFAULT_BED_WIDTH}

\* one process runs the tool at most once
Next ==
    \/ \E w \in RunWidths, d \in RunDepths, t \in RunThicknesses :
          pc = "idle" /\ generate_drawer_files(w, d, t)
    \/ \E w \in RunWidths, d \in RunDepths, t \in RunThicknesses,
          bw \in RunBeds, bd \in RunBeds :
          pc = "idle" /\ main(w, d, t, bw, bd)
    \/ RunStep

Spec == Init /\ [][Next]_vars

-----------------------------------------------------------------------------
(* Properties of a run, checked under Spec                                  *)

RunStarted == pc # "idle"

\* the exported pieces of one kind
ExportedOf(kind) == {k \in 1..Len(exported) : exported[k].kind = kind}

\* the axes for which the run has called calculate_spacer_dimensions
FilledAxes == {f.axis : f \in fills}

\* one of the run's dimensions is not strictly positive (the unit size of a
\* run is always GridfinityConfig's 42.0)
InvalidDimension ==
    \/ run.drawer_width <= 0 \/ run.drawer_depth <= 0
    \/ run.thickness <= 0
    \/ PRINTER_BED_WIDTH <= 0 \/ PRINTER_BED_DEPTH <= 0

\* C7: a run with a non-positive drawer, bed or thickness dimension ends in
\* an error raised before anything is produced: it never hangs, never
\* completes, and no piece is built or exported.
C7_InvalidDimensionRejected ==
    (RunStarted /\ InvalidDimension)
        => /\ pc \notin {"done", "diverged"}
           /\ built = <<>>
           /\ exported = <<>>

\* C9: the run calls calculate_spacer_dimensions for an axis only when that
\* axis's gap exceeds 0.5 mm, and a run that gets past an axis's stage has
\* called it if and only if the gap exceeds 0.5 mm; spacer files of an axis
\* exist only for a gap over 0.5 mm, a completed run has at least one for
\* every axis whose gap exceeds it, and passing a stage without spacers
\* raises nothing.
C9_SpacersOnlyForSignificantGaps ==
    /\ \A f \in fills : /\ f.gap > GAP_THRESHOLD
                        /\ f.gap = layout.gaps[f.axis]
    /\ pc \in {"spacers_x", "spacers_y", "done"}
          => /\ "x" \in FilledAxes <=> layout.gaps.x > GAP_THRESHOLD
             /\ error = None
    /\ pc \in {"spacers_y", "done"}
          => ("y" \in FilledAxes <=> layout.gaps.y > GAP_THRESHOLD)
    /\ ExportedOf("spacer_x") # {} => layout.gaps.x > GAP_THRESHOLD
    /\ ExportedOf("spacer_y") # {} => layout.gaps.y > GAP_THRESHOLD
    /\ pc = "done"
          => /\ layout.gaps.x > GAP_THRESHOLD => ExportedOf("spacer_x") # {}
             /\ layout.gaps.y > GAP_THRESHOLD => ExportedOf("spacer_y") # {}

\* a completed run with a 0.3 mm gap in X, skipped, and a 0.6 mm gap in Y,
\* filled
C9_Witness ==
    /\ pc = "done"
    /\ layout.gaps.x = 3
    /\ layout.gaps.y = 6
    /\ FilledAxes = {"y"}
    /\ ExportedOf("spacer_x") = {}
    /\ ExportedOf("spacer_y") # {}
    /\ ExportedOf("baseplate") # {}

-----------------------------------------------------------------------------
(* SpecIdem: callers of the planner and the filler around a run of main     *)

ProbeDrawers == {<<5000, 3000>>, <<2000, 1000>>}
ProbeFills == {<<320, 2600>>, <<160, 840>>}
IdemBeds == {840, DEFAULT_BED_WIDTH}

NextIdem ==
    \/ \E a \in ProbeDrawers : CallPlan(a[1], a[2], GridfinityConfig)
    \/ \E a \in ProbeFills :
          CallFill(a[1], a[2], DEFAULT_MAX_LENGTH, DEFAULT_MAX_ASPECT_RATIO)
    \/ \E a \in ProbeDrawers, bw \in IdemBeds, bd \in IdemBeds :
          pc = "idle" /\ main(a[1], a[2], DEFAULT_THICKNESS, bw, bd)
    \/ RunStep

SpecIdem == Init /\ [][NextIdem]_vars

\* C6: a call of calculate_baseplates returns what the first call with the
\* same arguments returned, whatever ran in between (a run of main
\* included), and likewise for calculate_spacer_dimensions.
C6_SameArgumentsSameResult ==
    /\ (firstPlan # None /\ lastPlan.args = firstPlan.args)
          => lastPlan.result = firstPlan.result
    /\ (firstFill # None /\ lastFill.args = firstFill.args)
          => lastFill.result = firstFill.result

-----------------------------------------------------------------------------
(* Further properties of a run, checked under Spec                          *)

\* the pieces of one kind among those the kernel was asked to build
BuiltOf(kind) == {k \in 1..Len(built) : built[k].kind = kind}

\* the run's drawer has fewer than one whole unit on an axis
SubUnitAxis ==
    /\ layout # None
    /\ layout.drawer_units.x = 0 \/ layout.drawer_units.y = 0

\* C11: for a drawer smaller than one unit on an axis (all dimensions
\* strictly positive) the run hands no plate to the geometry kernel, raises
\* no error of its own, and reports the whole drawer dimension of that axis
\* as its gap.
C11_SubUnitAxisIsAllGap ==
    (RunStarted /\ ~InvalidDimension /\ SubUnitAxis)
        => /\ BuiltOf("baseplate") = {}
           /\ error.status \notin {"ValueError", "ZeroDivisionError"}
           /\ layout.drawer_units.x = 0 => layout.gaps.x = run.drawer_width
           /\ layout.drawer_units.y = 0 => layout.gaps.y = run.drawer_depth

-----------------------------------------------------------------------------
(* Further properties of the planner, checked under SpecPlan                *)

\* the sizes the specification gives for a greedy split of one axis
GreedySizes(units, max_units) ==
    LET count == CeilDiv(units, max_units)
    IN  [k \in 1..count |->
            IF k < count THEN max_units ELSE units - (count - 1) * max_units]

\* C12: in tier 2 (unitsY <= maxUnitsY and unitsX > maxUnitsX >= 1) the
\* plan has exactly ceil(unitsX / maxUnitsX) plates, each of Y size unitsY,
\* all but the last of X size maxUnitsX and the last of the rest of unitsX;
\* tier 3 is the mirror image on Y; tiers 3 and 4 are used only when
\* unitsY > maxUnitsY.
C12_GreedySplitOnOneAxis ==
    PlanCalled
        => /\ (SpecUnitsY <= SpecMaxUnitsY /\ SpecUnitsX > SpecMaxUnitsX
                    /\ SpecMaxUnitsX >= 1)
                => /\ lastPlan.result.status = "ok"
                   /\ lastPlan.result.tier = 2
                   /\ lastPlan.result.baseplates
                        = LET sizes == GreedySizes(SpecUnitsX, SpecMaxUnitsX)
                          IN  [k \in 1..Len(sizes) |-> <<sizes[k], SpecUnitsY>>]
           /\ (SpecUnitsX <= SpecMaxUnitsX /\ SpecUnitsY > SpecMaxUnitsY
                    /\ SpecMaxUnitsY >= 1)
                => /\ lastPlan.result.status = "ok"
                   /\ lastPlan.result.tier = 3
                   /\ lastPlan.result.baseplates
                        = LET sizes == GreedySizes(SpecUnitsY, SpecMaxUnitsY)
                          IN  [k \in 1..Len(sizes) |-> <<SpecUnitsX, sizes[k]>>]
           /\ (PlanReturned /\ lastPlan.result.tier \in {3, 4})
                => SpecUnitsY > SpecMaxUnitsY

\* Plan(500, 100, 256, 256, 42): 11 x 2 units on a 6 x 6 bed is split on X
\* into a full plate and a narrower last one
C12_Witness ==
    /\ PlanCalled
    /\ lastPlan.args = <<5000, 1000, GridfinityConfig>>
    /\ lastPlan.bed = <<DEFAULT_BED_WIDTH, DEFAULT_BED_DEPTH>>
    /\ lastPlan.result.status = "ok"
    /\ lastPlan.result.tier = 2
    /\ lastPlan.result.baseplates = <<<<6, 2>>, <<5, 2>>>>
-----------------------------------------------------------------------------
(* Further properties of the filler, checked under SpecFill                 *)

\* C14: on valid inputs calculate_spacer_dimensions returns exactly
\* numPieces = max(ceil(length / maxLength), ceil(length / (gap * maxAspectRatio)))
\* pieces, numPieces >= 1; a single piece is (gap, length), otherwise every
\* piece is (gap, length / numPieces); and Fill(32, 260, 150, 5) is two pieces
\* of (32, 130).
C14_EqualPiecesOfTheGap ==
    (FillCalled /\ ValidFillInputs)
        => LET numPieces == Max(CeilDiv(FillLength, FillMaxLength),
                                CeilDiv(FillLength, FillGap * FillRatio))
               spacers == lastFill.result.spacers
           IN  /\ lastFill.result.status = "ok"
               /\ numPieces >= 1
               /\ Len(spacers) = numPieces
               /\ \A i \in 1..Len(spacers) :
                    /\ spacers[i].width = FillGap
                    /\ spacers[i].depth.d > 0
                    /\ IF numPieces = 1
                       THEN FracEq(spacers[i].depth, Frac(FillLength, 1))
                       ELSE FracEq(spacers[i].depth, Frac(FillLength, numPieces))
               /\ lastFill.args = <<320, 2600, 1500, 5>>
                    => /\ Len(spacers) = 2
                       /\ \A i \in 1..2 : /\ spacers[i].width = 320
                                          /\ FracEq(spacers[i].depth, Frac(1300, 1))

\* Fill(16, 100, 150, 1) has returned seven pieces of 16 x 100/7
C14_Witness ==
    /\ FillReturned
    /\ lastFill.args = <<160, 1000, DEFAULT_MAX_LENGTH, 1>>
    /\ Len(lastFill.result.spacers) = 7
    /\ \A i \in 1..7 : /\ lastFill.result.spacers[i].width = 160
                       /\ FracEq(lastFill.result.spacers[i].depth, Frac(1000, 7))
-----------------------------------------------------------------------------
(* Order and failure of a run, checked under Spec                           *)

\* the place of a kind of file in the order of production
StageOf(kind) ==
    CASE kind = "baseplate" -> 1
      [] kind = "spacer_x" -> 2
      [] kind = "spacer_y" -> 3

\* the files written so far are the first pieces of the fixed order, none
\* skipped, each built just before it was written
ProducedInOrder ==
    /\ \A j, k \in 1..Len(exported) :
          j < k => StageOf(exported[j].kind) <= StageOf(exported[k].kind)
    /\ \A k \in 1..Len(exported) :
          LET earlier == {j \in 1..(k - 1) : exported[j].kind # exported[k].kind}
          IN  /\ exported[k].i = k - Cardinality(earlier)
              /\ exported[k].kind = "baseplate"
                    => <<exported[k].a, exported[k].b>> = layout.baseplates[k]
              /\ built[k].a = exported[k].a /\ built[k].b = exported[k].b
    /\ Len(built) \in {Len(exported), Len(exported) + 1}
    /\ Len(built) > Len(exported) => pc = "error"
    /\ (ExportedOf("spacer_x") \cup ExportedOf("spacer_y")) # {}
          => Cardinality(ExportedOf("baseplate")) = Len(layout.baseplates)
    /\ error # None => pc = "error"

\* once a piece has failed nothing more is built or written
FailureIsFatal ==
    pc = "error" => (pc' = "error" /\ built' = built /\ exported' = exported)

\* C15: a run builds and exports its pieces one at a time in a fixed order,
\* the plates in plan order, then the X spacers, then the Y spacers; when
\* building or exporting a piece fails the run ends in that error, and no
\* later piece is built or exported.
C15_OrderedAndFailFast == []ProducedInOrder /\ [][FailureIsFatal]_vars

\* a run that failed on a piece after writing all its plates and at least
\* one X spacer
C15_Witness ==
    /\ pc = "error"
    /\ error = Raised("CollaboratorError")
    /\ Len(built) = Len(exported) + 1
    /\ ExportedOf("baseplate") # {}
    /\ ExportedOf("spacer_x") # {}
-----------------------------------------------------------------------------
(* Area covered by the pieces of a run, checked under Spec                  *)

\* the sum of s[lo..hi], halving the range
RECURSIVE SumRange(_, _, _)
SumRange(s, lo, hi) ==
    IF lo > hi THEN 0
    ELSE IF lo = hi THEN s[lo]
    ELSE LET mid == (lo + hi) \div 2
         IN  SumRange(s, lo, mid) + SumRange(s, mid + 1, hi)

\* the footprint of the exported plates, in (mm / 10)^2
PlateArea ==
    SumRange([k \in 1..Len(exported) |->
                IF exported[k].kind = "baseplate"
                THEN (exported[k].a * GridfinityConfig.unit_size)
                        * (exported[k].b * GridfinityConfig.unit_size)
                ELSE 0],
             1, Len(exported))

\* the summed width * depth of the exported spacers of one kind, over the
\* common multiple m of their denominators: the area is whole / m, exactly
SpacerArea(kind) ==
    LET ks == ExportedOf(kind)
        den(k) == exported[k].a.d * exported[k].b.d
        m == SetProduct({den(k) : k \in ks})
        whole == SumRange([k \in 1..Len(exported) |->
                             IF k \in ks
                             THEN exported[k].a.n * exported[k].b.n * (m \div den(k))
                             ELSE 0],
                          1, Len(exported))
    IN  [exact |-> whole % m = 0, area |-> whole \div m]

\* the run is one the coverage claim speaks of: completed, at least one unit
\* on each axis, each gap 0 or over 0.5 mm
CoverageCase ==
    /\ pc = "done"
    /\ layout.drawer_units.x >= 1 /\ layout.drawer_units.y >= 1
    /\ layout.gaps.x = 0 \/ layout.gaps.x > GAP_THRESHOLD
    /\ layout.gaps.y = 0 \/ layout.gaps.y > GAP_THRESHOLD

PiecesCoverTheDrawer ==
    /\ SpacerArea("spacer_x").exact
    /\ SpacerArea("spacer_y").exact
    /\ PlateArea + SpacerArea("spacer_x").area + SpacerArea("spacer_y").area
         = run.drawer_width * run.drawer_depth

\* C16: in a completed run for a drawer of at least one unit on each axis
\* whose gaps are each 0 or over 0.5 mm, the plate footprints plus the
\* areas of the X spacers plus the areas of the Y spacers equal
\* drawerWidth * drawerDepth.
C16_PiecesCoverTheDrawer == CoverageCase => PiecesCoverTheDrawer

\* the same for runs whose dimensions are all strictly positive
CoverageOnValidDimensions ==
    (CoverageCase /\ ~InvalidDimension) => PiecesCoverTheDrawer

\* a completed run with plates and spacers on both axes, all dimensions
\* strictly positive
CoverageOnValidDimensions_Witness ==
    /\ CoverageCase /\ ~InvalidDimension
    /\ Cardinality(ExportedOf("baseplate")) > 1
    /\ ExportedOf("spacer_x") # {}
    /\ Cardinality(ExportedOf("spacer_y")) > 1

====
